---------------------------- MODULE Spec2Model ----------------------------
(***************************************************************************)
(* crypto-pay: the payment flow of the TRON payment screens.               *)
(*                                                                         *)
(*   - the amount codec (toTokenUnits / fromTokenUnits, lib/units.js),     *)
(*   - the confirmation poller (getTxInfo / waitForTxResult,               *)
(*     lib/tronHttp.js),                                                   *)
(*   - handlePayWithCrypto of the three payment screens (route, QR and     *)
(*     manual form), with the wallet, the token contract, the payment      *)
(*     contract and the indexing service as the environment.               *)
(*                                                                         *)
(* JavaScript strings are sequences of one-character strings, so that      *)
(* slicing, padding and the regular expressions are computed, not assumed. *)
(***************************************************************************)
EXTENDS Integers, Sequences, FiniteSets, TLC

VARIABLES
    \* ---- amount codec harness: the last call and what it returned
    cOp,          \* the call made: "toTokenUnits" | "fromTokenUnits" | "roundTrip"
    cAmount,      \* argument `amount` of toTokenUnits (Nil or a string)
    cRaw,         \* argument `raw` of fromTokenUnits
    cDecimals,    \* argument `decimals`
    cHuman,       \* what fromTokenUnits returned
    cUnits,       \* what toTokenUnits returned or threw
    \* ---- waitForTxResult: one call of the confirmation poller
    wPc,          \* "idle" | "test" | "query" | "sleep" | "returned" | "threw"
    wTxid,        \* argument txid
    wTimeoutMs,   \* option timeoutMs
    wIntervalMs,  \* option intervalMs
    wElapsed,     \* Date.now() - start, in ms
    wQueries,     \* getTxInfo requests issued so far
    wEmpty,       \* of those, the ones answered without a receipt result
    wLast,        \* info?.receipt?.result of the latest answer
    wRet,         \* the value returned, or the message thrown
    \* ---- a payment screen (React component state)
    screen,       \* which screen is mounted: "route" | "qr" | "form"
    network,      \* assertNetwork: its argument NETWORK, "" outside it
    busy,         \* useState(false)
    log,          \* the log, one entry per line
    wallet,       \* useState(null): the connected address, <<>> for null
    paymentStatus,\* IDLE | PROCESSING | SUCCESS | FAILED | PENDING
    data,         \* the request held: order (route), data (QR), the inputs (form)
    loadingOrder, \* route screen: the order is being fetched
    \* ---- the running handlePayWithCrypto: position and locals
    pc,           \* "idle" or the await the handler is suspended at
    hReq,         \* the request captured when the handler was invoked
    hToken,       \* the token contract address the handler uses
    hAddress,     \* address returned by connectTronLink
    hHost,        \* assertNetwork: tronWeb.fullNode.host as read, <<>> outside it
    hDecimals,    \* decimals read from the token, -1 before
    hAmountRaw,   \* toTokenUnits(amount, decimals), <<>> before
    hAllowance,   \* allowance read from the token, <<>> before
    hTxid,        \* txid of payTx, "" before
    attempts,     \* handler invocations so far
    \* ---- the chain and the browser
    chainCalls,   \* contract calls issued by the latest attempt, in order
    inFlight,     \* .send() submissions issued and not yet settled
    approveMined, \* the approve transaction is confirmed on chain
    stored        \* localStorage entries written: txid, status and the ids

codecVars == <<cOp, cAmount, cRaw, cDecimals, cHuman, cUnits>>

waitVars == <<wPc, wTxid, wTimeoutMs, wIntervalMs, wElapsed, wQueries, wEmpty,
              wLast, wRet>>

uiVars == <<screen, network, busy, log, wallet, paymentStatus, data, loadingOrder>>

handlerVars == <<pc, hReq, hToken, hAddress, hHost, hDecimals, hAmountRaw,
                 hAllowance, hTxid, attempts>>

chainVars == <<chainCalls, inFlight, approveMined, stored>>

\* what a codec call leaves alone, and what a poller step leaves alone
otherThanCodec == <<waitVars, uiVars, handlerVars, chainVars>>

otherThanWait == <<codecVars, uiVars, handlerVars, chainVars>>

vars == <<cOp, cAmount, cRaw, cDecimals, cHuman, cUnits,
          wPc, wTxid, wTimeoutMs, wIntervalMs, wElapsed, wQueries, wEmpty,
          wLast, wRet,
          screen, network, busy, log, wallet, paymentStatus, data, loadingOrder,
          pc, hReq, hToken, hAddress, hHost, hDecimals, hAmountRaw, hAllowance, hTxid,
          attempts, chainCalls, inFlight, approveMined, stored>>

-----------------------------------------------------------------------------
(* Bounds of the model *)

\* longest amount string enumerated for toTokenUnits
MaxAmountLen == 4
\* longest base-unit string enumerated for fromTokenUnits
MaxRawLen == 4
\* largest token precision enumerated (besides the documented 6)
MaxDecimals == 3
\* a getTxInfo round trip takes 0..MaxLatencySteps seconds
MaxLatencySteps == 1
\* a sleep overruns intervalMs by 0..MaxOverrunSteps seconds
MaxOverrunSteps == 1
\* handlePayWithCrypto is invoked at most MaxAttempts times on one screen
MaxAttempts == 2

-----------------------------------------------------------------------------
(* Strings *)

Digits == {"0", "1", "2", "3", "4", "5", "6", "7", "8", "9"}

IsDigit(c) == c \in Digits

Min(a, b) == IF a < b THEN a ELSE b

Max(a, b) == IF a > b THEN a ELSE b

\* every string over alphabet A of length at most n
StringsUpTo(A, n) == UNION {[1..k -> A] : k \in 0..n}

\* "0".repeat(n)
Repeat(c, n) == [i \in 1..n |-> c]

\* s.slice(0, n) for n >= 0
SliceTo(s, n) == SubSeq(s, 1, Min(n, Len(s)))

\* s.slice(0, -n) for n > 0
SliceDropLast(s, n) == SubSeq(s, 1, Max(Len(s) - n, 0))

\* s.slice(-n) for n > 0
SliceLast(s, n) == SubSeq(s, Max(Len(s) - n, 0) + 1, Len(s))

\* s.padStart(n, "0")
PadStart(s, n) == Repeat("0", Max(n - Len(s), 0)) \o s

\* s.split("."): the pieces between the dots, in order
RECURSIVE SplitDot(_)
SplitDot(s) ==
    IF \E i \in 1..Len(s) : s[i] = "."
    THEN LET p == CHOOSE i \in 1..Len(s) :
                      s[i] = "." /\ \A j \in 1..(i - 1) : s[j] # "."
         IN <<SubSeq(s, 1, p - 1)>> \o SplitDot(SubSeq(s, p + 1, Len(s)))
    ELSE <<s>>

\* /^\d+(\.\d+)?$/.test(value), run as the automaton of the expression:
\* st 0 = start, 1 = in \d+, 2 = after the dot, 3 = in the second \d+
RECURSIVE AmountReRun(_, _, _)
AmountReRun(s, i, st) ==
    IF i > Len(s)
    THEN st \in {1, 3}
    ELSE IF IsDigit(s[i])
         THEN AmountReRun(s, i + 1, CASE st = 0 -> 1
                                      [] st = 1 -> 1
                                      [] st = 2 -> 3
                                      [] OTHER  -> 3)
         ELSE IF s[i] = "." /\ st = 1
              THEN AmountReRun(s, i + 1, 2)
              ELSE FALSE

\* the expression without its end anchor: a matching prefix is enough
AmountReTestNoEndAnchor(s) ==
    \E n \in 1..Len(s) : AmountReRun(SubSeq(s, 1, n), 1, 0)

AmountReTest(s) == AmountReRun(s, 1, 0)

\* raw.replace(/^0+(?=\d)/, ""): leading zeros go while a digit follows
RECURSIVE StripLeadingZerosBeforeDigit(_)
StripLeadingZerosBeforeDigit(s) ==
    IF Len(s) >= 2 /\ s[1] = "0" /\ IsDigit(s[2])
    THEN StripLeadingZerosBeforeDigit(Tail(s))
    ELSE s

\* s.replace(/^0+/, "")
RECURSIVE StripLeadingZeros(_)
StripLeadingZeros(s) ==
    IF Len(s) >= 1 /\ s[1] = "0" THEN StripLeadingZeros(Tail(s)) ELSE s

\* only the last zero goes: the expression without its +
StripTrailingZerosOnce(s) ==
    IF Len(s) >= 1 /\ s[Len(s)] = "0" THEN SubSeq(s, 1, Len(s) - 1) ELSE s

\* s.replace(/0+$/, "")
RECURSIVE StripTrailingZeros(_)
StripTrailingZeros(s) ==
    IF Len(s) >= 1 /\ s[Len(s)] = "0"
    THEN StripTrailingZeros(SubSeq(s, 1, Len(s) - 1))
    ELSE s

\* x || "0" for a string x
OrZero(s) == IF s = <<>> THEN <<"0">> ELSE s

-----------------------------------------------------------------------------
(* lib/units.js *)

\* A JavaScript value that is null/undefined or a string
Nil == [isNil |-> TRUE, str |-> <<>>]

Str(s) == [isNil |-> FALSE, str |-> s]

Returned(v) == [threw |-> FALSE, message |-> "", value |-> v]

Threw(m) == [threw |-> TRUE, message |-> m, value |-> <<>>]

\* a call that has not completed
Pending == [threw |-> FALSE, message |-> "pending", value |-> <<>>]

\* toTokenUnits with the fraction cut to `decimals` digits but never padded
toTokenUnitsNoPad(amount, decimals) ==
    IF amount.isNil
    THEN Threw("Invalid amount")
    ELSE LET value == amount.str IN
         IF ~AmountReTest(value)
         THEN Threw("Invalid numeric amount")
         ELSE LET parts    == SplitDot(value)
                  whole    == parts[1]
                  fraction == IF Len(parts) >= 2 THEN parts[2] ELSE <<>>
                  raw      == whole \o SliceTo(fraction, decimals)
              IN Returned(OrZero(StripLeadingZerosBeforeDigit(raw)))

toTokenUnits(amount, decimals) ==
    IF amount.isNil
    THEN Threw("Invalid amount")
    ELSE LET value == amount.str IN
         IF ~AmountReTest(value)
         THEN Threw("Invalid numeric amount")
         ELSE LET parts          == SplitDot(value)
                  whole          == parts[1]
                  fraction       == IF Len(parts) >= 2 THEN parts[2] ELSE <<>>
                  paddedFraction == SliceTo(fraction \o Repeat("0", decimals), decimals)
                  raw            == whole \o paddedFraction
              IN Returned(OrZero(StripLeadingZerosBeforeDigit(raw)))

\* fromTokenUnits padding to `decimals` digits, one short of decimals + 1
fromTokenUnitsPadShort(raw, decimals) ==
    LET rawStr == OrZero(StripLeadingZeros(raw)) IN
    IF decimals = 0
    THEN rawStr
    ELSE LET padded   == PadStart(rawStr, decimals)
             whole    == SliceDropLast(padded, decimals)
             fraction == StripTrailingZeros(SliceLast(padded, decimals))
         IN IF fraction # <<>> THEN whole \o <<".">> \o fraction ELSE whole

fromTokenUnits(raw, decimals) ==
    LET rawStr == OrZero(StripLeadingZeros(raw)) IN
    IF decimals = 0
    THEN rawStr
    ELSE LET padded   == PadStart(rawStr, decimals + 1)
             whole    == SliceDropLast(padded, decimals)
             fraction == StripTrailingZeros(SliceLast(padded, decimals))
         IN IF fraction # <<>> THEN whole \o <<".">> \o fraction ELSE whole

-----------------------------------------------------------------------------
(* Codec harness: the codec called on enumerated arguments *)

AmountAlphabet == {"0", "1", "5", ".", "-", "a"}

RawAlphabet == {"0", "1", "5"}

\* the documented examples (units.js doc comments, README-style cases)
ExampleAmounts ==
    { <<"1", "0", ".", "2", "5">>,
      <<"0", ".", "0", "0", "0", "0", "0", "1">>,
      <<"1", "5", ".", "0", "0">>,
      <<"1", ".", "2", ".", "3">>,
      <<"a", "b", "c">>,
      <<"-", "1">>,
      <<"5">> }

ExampleRaws ==
    { <<"1", "0", "2", "5", "0", "0", "0", "0">>,
      <<"1", "5", "0", "0", "0", "0", "0", "0">>,
      <<"1">>, <<"5">> }

AmountInputs ==
    {Nil} \cup {Str(s) : s \in StringsUpTo(AmountAlphabet, MaxAmountLen) \cup ExampleAmounts}

RawInputs == StringsUpTo(RawAlphabet, MaxRawLen) \cup ExampleRaws

DecimalsInputs == 0..MaxDecimals \cup {6}

\* the harness starts with one call's arguments chosen and nothing returned
CodecInit ==
    /\ cOp \in {"toTokenUnits", "fromTokenUnits", "roundTrip"}
    /\ cDecimals \in DecimalsInputs
    /\ cAmount \in IF cOp = "toTokenUnits" THEN AmountInputs ELSE {Nil}
    /\ cRaw \in IF cOp = "toTokenUnits" THEN {<<>>} ELSE RawInputs
    /\ cHuman = <<>>
    /\ cUnits = Pending

CallToTokenUnits ==
    /\ cOp = "toTokenUnits"
    /\ cUnits = Pending
    /\ cUnits' = toTokenUnits(cAmount, cDecimals)
    /\ UNCHANGED <<cOp, cAmount, cRaw, cDecimals, cHuman>>
    /\ UNCHANGED otherThanCodec

CallFromTokenUnits ==
    /\ cOp = "fromTokenUnits"
    /\ cUnits = Pending
    /\ cHuman' = fromTokenUnits(cRaw, cDecimals)
    /\ cUnits' = Returned(<<>>)
    /\ UNCHANGED <<cOp, cAmount, cRaw, cDecimals>>
    /\ UNCHANGED otherThanCodec

\* toTokenUnits(fromTokenUnits(u, d), d)
CallRoundTrip ==
    /\ cOp = "roundTrip"
    /\ cUnits = Pending
    /\ cHuman' = fromTokenUnits(cRaw, cDecimals)
    /\ cAmount' = Str(cHuman')
    /\ cUnits' = toTokenUnits(Str(cHuman'), cDecimals)
    /\ UNCHANGED <<cOp, cRaw, cDecimals>>
    /\ UNCHANGED otherThanCodec

CodecNext == CallToTokenUnits \/ CallFromTokenUnits \/ CallRoundTrip

-----------------------------------------------------------------------------
(* lib/tronHttp.js: getTxInfo and waitForTxResult *)

\* waitForTxResult(txid, { timeoutMs = 60_000, intervalMs = 2500 } = {})
DefaultTimeoutMs == 60000

DefaultIntervalMs == 2500

\* the options every payment screen passes
ScreenTimeoutMs == 90000

ScreenIntervalMs == 3000

\* defaults equal to the options the screens pass
DefaultOptionsOfTheScreens ==
    [timeoutMs |-> ScreenTimeoutMs, intervalMs |-> ScreenIntervalMs]

\* { timeoutMs = 60_000, intervalMs = 2500 } = {}
DefaultOptions == [timeoutMs |-> DefaultTimeoutMs, intervalMs |-> DefaultIntervalMs]

ScreenOptions == [timeoutMs |-> ScreenTimeoutMs, intervalMs |-> ScreenIntervalMs]

\* info?.receipt?.result when the transaction is not indexed yet ({} or a
\* receipt without result)
Absent == "<undefined>"

\* what the indexing service can answer for receipt.result
ReceiptResults == {Absent, "", "SUCCESS", "REVERT", "OUT_OF_ENERGY"}

\* time a request to the indexing service takes
QueryLatencies == {k * 1000 : k \in 0..MaxLatencySteps}

\* time setTimeout(r, intervalMs) takes beyond intervalMs
SleepOverruns == {k * 1000 : k \in 0..MaxOverrunSteps}

\* JavaScript truthiness of receipt.result
Truthy(result) == result # Absent /\ result # ""

\* the loop test with <= for <
LoopConditionInclusive(elapsed, timeoutMs) == elapsed <= timeoutMs

\* while (Date.now() - start < timeoutMs)
LoopCondition(elapsed, timeoutMs) == elapsed < timeoutMs

\* the classification with `result !== undefined` for `result`
ClassifyResultEmptyFails(result) ==
    IF result = "SUCCESS" THEN "SUCCESS"
    ELSE IF result # Absent /\ result # "SUCCESS" THEN "FAILED"
    ELSE "continue"

\* if (result === "SUCCESS") return "SUCCESS";
\* if (result && result !== "SUCCESS") return "FAILED";
ClassifyResult(result) ==
    IF result = "SUCCESS" THEN "SUCCESS"
    ELSE IF Truthy(result) /\ result # "SUCCESS" THEN "FAILED"
    ELSE "continue"

WaitInit ==
    /\ wPc = "idle"
    /\ wTxid = "none"
    /\ wTimeoutMs = 0
    /\ wIntervalMs = 0
    /\ wElapsed = 0
    /\ wQueries = 0
    /\ wEmpty = 0
    /\ wLast = Absent
    /\ wRet = ""

\* const start = Date.now();
waitForTxResult(txid, options) ==
    /\ wPc' = "test"
    /\ wTxid' = txid
    /\ wTimeoutMs' = options.timeoutMs
    /\ wIntervalMs' = options.intervalMs
    /\ wElapsed' = 0
    /\ wQueries' = 0
    /\ wEmpty' = 0
    /\ wLast' = Absent
    /\ wRet' = ""

\* the loop test holds: getTxInfo(txid) is requested
WaitLoopEnter ==
    /\ wPc = "test"
    /\ LoopCondition(wElapsed, wTimeoutMs)
    /\ wPc' = "query"
    /\ wQueries' = wQueries + 1
    /\ UNCHANGED <<wTxid, wTimeoutMs, wIntervalMs, wElapsed, wEmpty, wLast, wRet>>
    /\ UNCHANGED otherThanWait

\* the loop test fails: return "PENDING"
WaitLoopExit ==
    /\ wPc = "test"
    /\ ~LoopCondition(wElapsed, wTimeoutMs)
    /\ wPc' = "returned"
    /\ wRet' = "PENDING"
    /\ UNCHANGED <<wTxid, wTimeoutMs, wIntervalMs, wElapsed, wQueries, wEmpty, wLast>>
    /\ UNCHANGED otherThanWait

\* getTxInfo answers with a body after one of `latencies`: the result is
\* classified
GetTxInfoAnswersIn(latencies) ==
    /\ wPc = "query"
    /\ \E latency \in latencies, result \in ReceiptResults :
        /\ wElapsed' = wElapsed + latency
        /\ wLast' = result
        /\ IF ClassifyResult(result) = "continue"
           THEN /\ wPc' = "sleep"
                /\ wEmpty' = wEmpty + 1
                /\ wRet' = wRet
           ELSE /\ wPc' = "returned"
                /\ wEmpty' = wEmpty
                /\ wRet' = ClassifyResult(result)
    /\ UNCHANGED <<wTxid, wTimeoutMs, wIntervalMs, wQueries>>
    /\ UNCHANGED otherThanWait

\* getTxInfo throws: !res.ok, or fetch / res.json() rejects
GetTxInfoThrowsIn(latencies) ==
    /\ wPc = "query"
    /\ \E latency \in latencies :
        wElapsed' = wElapsed + latency
    /\ wPc' = "threw"
    /\ wRet' = "TronGrid error"
    /\ UNCHANGED <<wTxid, wTimeoutMs, wIntervalMs, wQueries, wEmpty, wLast>>
    /\ UNCHANGED otherThanWait

\* await new Promise((r) => setTimeout(r, intervalMs))
WaitSleepEndsIn(overruns) ==
    /\ wPc = "sleep"
    /\ \E overrun \in overruns :
        wElapsed' = wElapsed + wIntervalMs + overrun
    /\ wPc' = "test"
    /\ UNCHANGED <<wTxid, wTimeoutMs, wIntervalMs, wQueries, wEmpty, wLast, wRet>>
    /\ UNCHANGED otherThanWait

GetTxInfoAnswers == GetTxInfoAnswersIn(QueryLatencies)

GetTxInfoThrows == GetTxInfoThrowsIn(QueryLatencies)

WaitSleepEnds == WaitSleepEndsIn(SleepOverruns)

\* the poller called on its own, with the default or the screens' options
WaitCall ==
    /\ wPc = "idle"
    /\ \E options \in {DefaultOptions, ScreenOptions} :
        waitForTxResult("tx", options)
    /\ UNCHANGED otherThanWait

WaitNext ==
    \/ WaitCall
    \/ WaitLoopEnter
    \/ WaitLoopExit
    \/ GetTxInfoAnswers
    \/ GetTxInfoThrows
    \/ WaitSleepEnds

-----------------------------------------------------------------------------
(* JavaScript conversions the payment screens apply to request fields *)

\* v.startsWith(prefix)
StartsWith(v, prefix) ==
    /\ Len(v) >= Len(prefix)
    /\ SubSeq(v, 1, Len(prefix)) = prefix

\* s.includes(sub)
Includes(s, sub) ==
    \E i \in 0..(Len(s) - Len(sub)) : SubSeq(s, i + 1, i + Len(sub)) = sub

\* c.toLowerCase() for the letters host names are written with
LowerChar(c) ==
    CASE c = "N" -> "n" [] c = "I" -> "i" [] c = "L" -> "l" [] c = "E" -> "e"
      [] c = "T" -> "t" [] c = "R" -> "r" [] c = "O" -> "o" [] c = "G" -> "g"
      [] c = "D" -> "d" [] OTHER -> c

\* s.toLowerCase()
ToLowerCase(s) == [i \in 1..Len(s) |-> LowerChar(s[i])]

\* Number(s) for a string s of digits, ".", "-", "+" and letters other than
\* exponent, hexadecimal and Infinity spellings: the sign of the value, or
\* "nan". The empty string converts to 0; "5." and ".5" are numbers.
NumberSign(s) ==
    IF s = <<>> THEN "zero"
    ELSE LET signed == s[1] \in {"-", "+"}
             body   == IF signed THEN Tail(s) ELSE s
             dots   == {i \in 1..Len(body) : body[i] = "."}
             digits == {i \in 1..Len(body) : IsDigit(body[i])}
         IN IF \/ Cardinality(dots) > 1
               \/ digits = {}
               \/ Cardinality(dots) + Cardinality(digits) # Len(body)
            THEN "nan"
            ELSE IF \A i \in digits : body[i] = "0" THEN "zero"
            ELSE IF s[1] = "-" THEN "neg"
            ELSE "pos"

\* Number(s) <= 0: false for NaN
NumberLeqZero(s) == NumberSign(s) \in {"zero", "neg"}

\* BigInt(s) for a string s without whitespace and without a radix prefix:
\* "neg", "nonneg", or "throws" (SyntaxError). BigInt("") is 0n.
BigIntOf(s) ==
    IF s = <<>> THEN "nonneg"
    ELSE LET signed == s[1] \in {"-", "+"}
             body   == IF signed THEN Tail(s) ELSE s
         IN IF body = <<>> \/ \E i \in 1..Len(body) : ~IsDigit(body[i])
            THEN "throws"
            ELSE IF s[1] = "-" /\ \E i \in 1..Len(body) : body[i] # "0"
                 THEN "neg"
                 ELSE "nonneg"

\* the digit string without leading zeros ("0" for zero): BigInt's value
Canon(s) == OrZero(StripLeadingZeros(s))

\* BigInt(a) < BigInt(b) for digit strings of one length: the first digit
\* in which they differ is the smaller in a
DigitsLess(a, b) ==
    \E i \in 1..Len(a) :
        /\ \A j \in 1..(i - 1) : a[j] = b[j]
        /\ \E x, y \in 0..9 :
              /\ a[i] = <<"0", "1", "2", "3", "4", "5", "6", "7", "8", "9">>[x + 1]
              /\ b[i] = <<"0", "1", "2", "3", "4", "5", "6", "7", "8", "9">>[y + 1]
              /\ x < y

\* BigInt(a) <= BigInt(b)
BigIntLessOrEqual(a, b) ==
    LET ca == Canon(a)
        cb == Canon(b)
    IN IF Len(ca) # Len(cb) THEN Len(ca) < Len(cb) ELSE ca = cb \/ DigitsLess(ca, cb)

BigIntLess(a, b) ==
    LET ca == Canon(a)
        cb == Canon(b)
    IN IF Len(ca) # Len(cb) THEN Len(ca) < Len(cb) ELSE DigitsLess(ca, cb)

-----------------------------------------------------------------------------
(* components/PaymentScreen*.jsx: validation *)

HexPrefix == <<"0", "x">>

isBytes32Hex(v) == StartsWith(v, HexPrefix) /\ Len(v) = 66

isBytesHex(v) == StartsWith(v, HexPrefix) /\ Len(v) >= 4 /\ Len(v) % 2 = 0

isTronBase58Address(v) == StartsWith(v, <<"T">>) /\ Len(v) >= 34 /\ Len(v) <= 36

\* the request a screen holds; NoData is data === null / order === null
NoData == [loaded |-> FALSE]

\* PaymentScreen.jsx (route screen): validationError
validationErrorRoute(loading, order) ==
    IF loading THEN "Loading..."
    ELSE IF ~order.loaded THEN "Order not found / failed to load"
    ELSE IF order.amount = <<>> \/ NumberLeqZero(order.amount) THEN "Invalid amount"
    ELSE IF order.deadline = <<>> \/ NumberLeqZero(order.deadline)
         THEN "Missing/invalid deadline"
    ELSE IF order.signature = <<>> \/ ~StartsWith(order.signature, HexPrefix)
         THEN "Missing/invalid signature"
    ELSE IF ~isBytes32Hex(order.merchantId) THEN "Missing/invalid merchant_id (bytes32)"
    ELSE IF ~isBytes32Hex(order.orderId) THEN "Missing/invalid order_id (bytes32)"
    ELSE IF ~isBytes32Hex(order.invoiceId) THEN "Missing/invalid invoice_id (bytes32)"
    ELSE IF order.token = <<>> THEN "Missing token address"
    ELSE ""

\* the deadline rule of the QR and the manual-form screen (try / catch)
deadlineError(deadline) ==
    IF deadline = <<>> THEN "Deadline is required (use 0 to disable)"
    ELSE IF BigIntOf(deadline) = "throws" THEN "Invalid deadline (must be integer)"
    ELSE IF BigIntOf(deadline) = "neg" THEN "Deadline must be >= 0"
    ELSE ""

\* the QR screen's validationError with the deadline tested before the ids
validationErrorQRDeadlineFirst(d) ==
    IF ~d.loaded THEN "Upload a QR to load payment data"
    ELSE IF d.amount = <<>> \/ NumberLeqZero(d.amount) THEN "Invalid amount"
    ELSE IF deadlineError(d.deadline) # "" THEN deadlineError(d.deadline)
    ELSE IF ~isBytes32Hex(d.merchantId) THEN "Invalid merchantId (bytes32)"
    ELSE IF ~isBytes32Hex(d.orderId) THEN "Invalid orderId (bytes32)"
    ELSE IF ~isBytes32Hex(d.invoiceId) THEN "Invalid invoiceId (bytes32)"
    ELSE IF d.token = <<>> THEN "Token address is required"
    ELSE IF ~isTronBase58Address(d.token)
         THEN "Invalid token address (TRON base58, starts with T)"
    ELSE IF d.signature = <<>> THEN "Signature is required"
    ELSE IF ~isBytesHex(d.signature) THEN "Invalid signature (must be 0x hex bytes)"
    ELSE ""

\* PaymentScreen3.jsx (QR screen): validationError
validationErrorQR(d) ==
    IF ~d.loaded THEN "Upload a QR to load payment data"
    ELSE IF d.amount = <<>> \/ NumberLeqZero(d.amount) THEN "Invalid amount"
    ELSE IF ~isBytes32Hex(d.merchantId) THEN "Invalid merchantId (bytes32)"
    ELSE IF ~isBytes32Hex(d.orderId) THEN "Invalid orderId (bytes32)"
    ELSE IF ~isBytes32Hex(d.invoiceId) THEN "Invalid invoiceId (bytes32)"
    ELSE IF d.token = <<>> THEN "Token address is required"
    ELSE IF ~isTronBase58Address(d.token)
         THEN "Invalid token address (TRON base58, starts with T)"
    ELSE IF deadlineError(d.deadline) # "" THEN deadlineError(d.deadline)
    ELSE IF d.signature = <<>> THEN "Signature is required"
    ELSE IF ~isBytesHex(d.signature) THEN "Invalid signature (must be 0x hex bytes)"
    ELSE ""

\* PaymentScreen3.jsx (manual-form screen): validationError
validationErrorForm(f) ==
    IF f.amount = <<>> \/ NumberLeqZero(f.amount) THEN "Invalid amount"
    ELSE IF ~isBytes32Hex(f.merchantId)
         THEN "Invalid merchantId (bytes32 hex 0x + 64 chars)"
    ELSE IF ~isBytes32Hex(f.orderId) THEN "Invalid orderId (bytes32 hex 0x + 64 chars)"
    ELSE IF ~isBytes32Hex(f.invoiceId)
         THEN "Invalid invoiceId (bytes32 hex 0x + 64 chars)"
    ELSE IF deadlineError(f.deadline) # "" THEN deadlineError(f.deadline)
    ELSE IF f.signature = <<>> THEN "Signature is required"
    ELSE IF ~isBytesHex(f.signature) THEN "Invalid signature (must be 0x hex bytes)"
    ELSE ""

-----------------------------------------------------------------------------
(* config/index.js, lib/tron.js *)

\* a base58 address: "T" and 33 more characters
TronAddr(c) == <<"T">> \o [i \in 1..33 |-> c]

\* PAYMENT.address
PAYMENT_ADDRESS == TronAddr("P")

\* USDT.address
USDT_ADDRESS == TronAddr("U")

\* values of contracts.network: unset, or a network name
NetworkConfigs == {"", "nile", "mainnet", "shasta"}

\* tronWeb.fullNode.host of the wallet's node ("" when there is none)
HostNile == <<"h", "t", "t", "p", "s", ":", "/", "/", "n", "i", "l", "e", ".", "t", "r", "o", "n", "g", "r", "i", "d", ".", "i", "o">>

HostMainnet == <<"h", "t", "t", "p", "s", ":", "/", "/", "a", "p", "i", ".", "t", "r", "o", "n", "g", "r", "i", "d", ".", "i", "o">>

HostShasta == <<"h", "t", "t", "p", "s", ":", "/", "/", "a", "p", "i", ".", "s", "h", "a", "s", "t", "a", ".", "t", "r", "o", "n", "g", "r", "i", "d", ".", "i", "o">>

Hosts == {HostNile, HostMainnet, HostShasta, <<>>}

\* assertNetwork without its test for "mainnet"
assertNetworkNileOnly(host, expectedNetwork) ==
    IF expectedNetwork = "nile" /\ ~Includes(ToLowerCase(host), <<"n", "i", "l", "e">>)
    THEN "Wrong network. Please switch to Nile Testnet in TronLink."
    ELSE ""

\* assertNetwork(tronWeb, expectedNetwork): "" when it returns, else the
\* message of the Error it throws
assertNetwork(host, expectedNetwork) ==
    IF expectedNetwork = "" THEN ""
    ELSE IF expectedNetwork = "nile" /\ ~Includes(ToLowerCase(host), <<"n", "i", "l", "e">>)
         THEN "Wrong network. Please switch to Nile Testnet in TronLink."
    ELSE IF expectedNetwork = "mainnet"
            /\ ~Includes(ToLowerCase(host), <<"t", "r", "o", "n", "g", "r", "i", "d">>)
         THEN "Wrong network. Please switch to Tron Mainnet in TronLink."
    ELSE ""

\* what connectTronLink can throw: no extension, the connect request
\* rejected, no unlocked account
ConnectErrors ==
    { "TronLink not detected. Install TronLink extension / app.",
      "Confirmation declined by user",
      "Wallet not connected/unlocked." }

\* the account the wallet exposes
WalletAddress == TronAddr("W")

-----------------------------------------------------------------------------
(* The requests a screen is given *)

Bytes32(c) == HexPrefix \o [i \in 1..64 |-> c]

TokenAddress == TronAddr("K")

Request(merchantId, amount, deadline) ==
    [ loaded     |-> TRUE,
      merchantId |-> merchantId,
      orderId    |-> Bytes32("b"),
      invoiceId  |-> Bytes32("c"),
      amount     |-> amount,
      token      |-> TokenAddress,
      deadline   |-> deadline,
      signature  |-> <<"0", "x", "a", "b">> ]

\* the inputs of the manual form before any edit
EmptyForm ==
    [ loaded     |-> TRUE,
      merchantId |-> <<>>,
      orderId    |-> <<>>,
      invoiceId  |-> <<>>,
      amount     |-> <<>>,
      token      |-> <<>>,
      deadline   |-> <<"0">>,
      signature  |-> <<>> ]

Requests ==
    { Request(Bytes32("a"), <<"1", "5", ".", "0", "0">>, <<"0">>),
      Request(Bytes32("z"), <<"1", "5", ".", "0", "0">>, <<"9">>),
      Request(Bytes32("a"), <<"0", ".", "5">>, <<"9">>),
      Request(Bytes32("a"), <<"a", "b", "c">>, <<"9">>),
      Request(HexPrefix \o [i \in 1..63 |-> "a"], <<"1", "5", ".", "0", "0">>, <<"9">>) }

\* the orders the backend answers the route screen with
RouteOrders ==
    { Request(Bytes32("a"), <<"1", "5", ".", "0", "0">>, <<"0">>),
      Request(Bytes32("a"), <<"1", "5", ".", "0", "0">>, <<"9">>) }

\* mapApiOrderToUI(api): the order the route screen holds for the backend's
\* answer; an absent token is USDT.address, an absent deadline is 0
mapApiOrderToUI(api) ==
    [ loaded     |-> TRUE,
      merchantId |-> api.merchantId,
      orderId    |-> api.orderId,
      invoiceId  |-> api.invoiceId,
      amount     |-> api.amount,
      token      |-> IF api.token = <<>> THEN USDT_ADDRESS ELSE api.token,
      deadline   |-> IF api.deadline = <<>> THEN <<"0">> ELSE api.deadline,
      signature  |-> api.signature ]

\* values of the fields of a request as a backend, a QR code or the form's
\* user may give them: well formed, absent, and malformed in each way the
\* validation tests for
AmountFields == {<<"1", "5", ".", "0", "0">>, <<"0">>, <<>>}

DeadlineFields == {<<"9">>, <<"0">>, <<>>, <<"-", "1">>, <<"1", ".", "5">>}

SignatureFields ==
    { <<"0", "x", "a", "b">>, <<>>, <<"0", "x">>, <<"0", "x", "a", "b", "c">>,
      <<"0", "x", "z", "z">>, <<"a", "b">> }

IdFields == {Bytes32("a"), HexPrefix \o [i \in 1..63 |-> "a"]}

TokenFields == {TokenAddress, <<>>, <<"T", "x">>}

ValidatorInputs ==
    { [ loaded     |-> TRUE,
        merchantId |-> merchantId,
        orderId    |-> Bytes32("b"),
        invoiceId  |-> Bytes32("c"),
        amount     |-> amount,
        token      |-> token,
        deadline   |-> deadline,
        signature  |-> signature ] :
        merchantId \in IdFields, amount \in AmountFields, token \in TokenFields,
        deadline \in DeadlineFields, signature \in SignatureFields }

\* decimals() of the tokens paid with
TokenDecimals == {0, 6, 18}

\* the digit string one below s, for s > 0: the last digit that is not 0
\* goes down by one and the zeros after it become nines
DecPred(s) ==
    LET p  == CHOOSE i \in 1..Len(s) :
                  s[i] # "0" /\ \A j \in (i + 1)..Len(s) : s[j] = "0"
        ds == <<"0", "1", "2", "3", "4", "5", "6", "7", "8", "9">>
    IN SubSeq(s, 1, p - 1)
         \o <<ds[CHOOSE k \in 1..9 : ds[k + 1] = s[p]]>>
         \o [j \in 1..(Len(s) - p) |-> "9"]

\* allowances the token may report around a required amount: none, one
\* unit short, exactly enough, ten times as much
AllowanceChoices(required) ==
    {<<"0">>, required, required \o <<"0">>}
        \cup (IF Canon(required) = <<"0">> THEN {} ELSE {Canon(DecPred(Canon(required)))})

-----------------------------------------------------------------------------
(* components/PaymentScreen.jsx, PaymentScreen3.jsx: the screens *)

\* logMsg(msg): one line of the log, with the value interpolated into it
L(msg) == [msg |-> msg, arg |-> <<>>]

LA(msg, arg) == [msg |-> msg, arg |-> arg]

\* a contract call handed to the wallet
Call(op, to, args) == [op |-> op, to |-> to, args |-> args]

\* txids the chain assigns
ApproveTxid == "approve-txid"

PayTxid == "pay-txid"

\* validationError of the mounted screen, as of the current render
validationError ==
    CASE screen = "route" -> validationErrorRoute(loadingOrder, data)
      [] screen = "qr"    -> validationErrorQR(data)
      [] OTHER            -> validationErrorForm(data)

\* a button that stays enabled while busy
PayDisabledNotWhileBusy ==
    \/ validationError # ""
    \/ paymentStatus = "SUCCESS"
    \/ (screen = "qr" /\ ~data.loaded)

\* disabled={busy || !!validationError || paymentStatus === "SUCCESS" [|| !data]}
PayDisabled ==
    \/ busy
    \/ validationError # ""
    \/ paymentStatus = "SUCCESS"
    \/ (screen = "qr" /\ ~data.loaded)

\* the address the token contract is built on (getContract)
ContractTokenOf(req) == IF screen = "form" THEN USDT_ADDRESS ELSE req.token

\* the token address handed to payTx
PayTxTokenOf(req) == IF screen = "form" THEN USDT_ADDRESS ELSE req.token

\* approve(PAYMENT.address, <the largest uint256>)
ApproveArgsUnlimited(amountRaw) == <<PAYMENT_ADDRESS, [i \in 1..78 |-> "9"]>>

\* approve(PAYMENT.address, amountRaw)
ApproveArgs(amountRaw) == <<PAYMENT_ADDRESS, amountRaw>>

\* payTx with amountRaw and deadline in each other's place
PayTxArgsAmountAfterDeadline(req, amountRaw) ==
    <<req.merchantId, req.orderId, req.invoiceId, PayTxTokenOf(req), req.deadline,
      amountRaw, req.signature>>

\* payTx(merchantId, orderId, invoiceId, token, amountRaw, deadline, signature)
PayTxArgs(req, amountRaw) ==
    <<req.merchantId, req.orderId, req.invoiceId, PayTxTokenOf(req), amountRaw,
      req.deadline, req.signature>>

\* the screen once mounted: the route screen has started fetching its
\* order, the QR screen may hold a request prefilled from the URL
ScreenInit ==
    /\ screen \in {"route", "qr", "form"}
    /\ network = ""
    /\ busy = FALSE
    /\ wallet = <<>>
    /\ paymentStatus = "IDLE"
    /\ loadingOrder = (screen = "route")
    /\ log = IF screen = "route" THEN <<L("Fetching order"), L("POST")>> ELSE <<>>
    /\ data \in CASE screen = "route" -> {NoData}
                  [] screen = "qr"    -> {NoData} \cup Requests
                  [] OTHER            -> {EmptyForm}
    /\ pc = "idle"
    /\ hReq = NoData
    /\ hToken = <<>>
    /\ hAddress = <<>>
    /\ hHost = <<>>
    /\ hDecimals = -1
    /\ hAmountRaw = <<>>
    /\ hAllowance = <<>>
    /\ hTxid = ""
    /\ attempts = 0
    /\ chainCalls = <<>>
    /\ inFlight = {}
    /\ approveMined = FALSE
    /\ stored = {}

\* route screen, load(): the fetch of the order settles with one of `orders`
LoadOrderSettlesFrom(orders) ==
    /\ screen = "route"
    /\ loadingOrder
    /\ \E order \in orders :
        /\ data' = order
        /\ log' = log \o (IF order.loaded
                          THEN <<L("Order loaded"), L("JSON.stringify(mapped)")>>
                          ELSE <<L("Failed to load order")>>)
    /\ loadingOrder' = FALSE
    /\ UNCHANGED <<screen, network, busy, wallet, paymentStatus>>
    /\ UNCHANGED <<codecVars, waitVars, handlerVars, chainVars>>

LoadOrderSettles == LoadOrderSettlesFrom(RouteOrders \cup {NoData})

\* route screen: the :orderId of the route changes and the effect runs load()
\* anew, also while the handler runs; the order held stays until the fetch
\* settles
RouteChanges ==
    /\ screen = "route"
    /\ loadingOrder' = TRUE
    /\ paymentStatus' = "IDLE"
    /\ log' = <<L("Fetching order"), L("POST")>>
    /\ UNCHANGED <<screen, network, busy, wallet, data>>
    /\ UNCHANGED <<codecVars, waitVars, handlerVars, chainVars>>

\* QR screen, onPickQRFile: the file input is disabled while busy; the
\* image decodes to one of `payloads`
onPickQRFileFrom(payloads) ==
    /\ screen = "qr"
    /\ ~busy
    /\ paymentStatus' = "IDLE"
    /\ \E parsed \in payloads :
        /\ data' = parsed
        /\ log' = <<L("Decoding QR from image...")>>
                    \o (IF parsed.loaded
                        THEN <<L("QR decoded"), L("QR text (preview)"),
                               L("Payment data populated from QR")>>
                        ELSE <<L("QR error")>>)
    /\ UNCHANGED <<screen, network, busy, wallet, loadingOrder>>
    /\ UNCHANGED <<codecVars, waitVars, handlerVars, chainVars>>

onPickQRFile == onPickQRFileFrom(Requests \cup {NoData})

\* manual form, the onChange handlers: the inputs are set to one of
\* `inputs`. The inputs stay enabled while busy; the running handler keeps
\* the values of the render in which it was invoked.
EditFormTo(inputs) ==
    /\ screen = "form"
    /\ \E r \in inputs : data' = [r EXCEPT !.token = <<>>]
    /\ UNCHANGED <<screen, network, busy, log, wallet, paymentStatus, loadingOrder>>
    /\ UNCHANGED <<codecVars, waitVars, handlerVars, chainVars>>

EditForm == EditFormTo(Requests)

\* the handler has returned: its locals are gone, and `chainCalls`, the calls
\* of the attempt, starts afresh
HandlerFrameGone ==
    /\ pc' = "idle"
    /\ hReq' = NoData
    /\ hToken' = <<>>
    /\ hAddress' = <<>>
    /\ hHost' = <<>>
    /\ hDecimals' = -1
    /\ hAmountRaw' = <<>>
    /\ hAllowance' = <<>>
    /\ hTxid' = ""
    /\ chainCalls' = <<>>
    /\ inFlight' = {}
    /\ approveMined' = FALSE

\* a catch block without the finally clause
CatchStaysBusy(message) ==
    /\ paymentStatus' = "FAILED"
    /\ log' = Append(log, LA("Error", message))
    /\ busy' = busy
    /\ HandlerFrameGone

\* a catch block that logs the error and leaves the status as it is
CatchLeavesStatus(message) ==
    /\ paymentStatus' = paymentStatus
    /\ log' = Append(log, LA("Error", message))
    /\ busy' = FALSE
    /\ HandlerFrameGone

\* a catch block that sets the status and logs nothing
CatchLogsNothing(message) ==
    /\ paymentStatus' = "FAILED"
    /\ log' = log
    /\ busy' = FALSE
    /\ HandlerFrameGone

\* catch (err) { setPaymentStatus("FAILED"); logMsg(...) } finally { setBusy(false) }
Catch(message) ==
    /\ paymentStatus' = "FAILED"
    /\ log' = Append(log, LA("Error", message))
    /\ busy' = FALSE
    /\ HandlerFrameGone

\* the locals of a call of waitForTxResult that has ended
WaitFrameGone ==
    /\ wPc' = "idle"
    /\ wTxid' = "none"
    /\ wTimeoutMs' = 0
    /\ wIntervalMs' = 0
    /\ wElapsed' = 0
    /\ wQueries' = 0
    /\ wEmpty' = 0
    /\ wLast' = Absent
    /\ wRet' = ""

\* the lines a log already holds when the QR screen starts an attempt
\* without clearing it, kept as one line standing for them all
Earlier(lines) == IF lines = <<>> THEN <<>> ELSE <<L("...")>>

\* handlePayWithCrypto without the test of validationError
handlePayWithCryptoUnvalidated ==
    /\ pc = "idle"
    /\ data.loaded
    /\ attempts < MaxAttempts
    /\ attempts' = attempts + 1
    /\ paymentStatus' = "PROCESSING"
    /\ log' = Append(IF screen = "qr"
                     THEN Earlier(log) \o <<L("-----"), L("Starting payment...")>>
                     ELSE <<>>,
                     L("Connecting to TronLink..."))
    /\ busy' = TRUE
    /\ pc' = "connect"
    /\ hReq' = data
    /\ UNCHANGED <<screen, network, wallet, data, loadingOrder>>
    /\ UNCHANGED <<hToken, hAddress, hHost, hDecimals, hAmountRaw, hAllowance, hTxid>>
    /\ UNCHANGED <<codecVars, waitVars, chainVars>>

\* handlePayWithCrypto up to its first await, one call at a time
handlePayWithCrypto ==
    /\ pc = "idle"
    /\ data.loaded
    /\ attempts < MaxAttempts
    /\ attempts' = attempts + 1
    /\ paymentStatus' = "PROCESSING"
    /\ LET started == IF screen = "qr"
                      THEN Earlier(log) \o <<L("-----"), L("Starting payment...")>>
                      ELSE <<>>
       IN IF validationError # ""
          THEN /\ log' = Append(started, LA("Invalid", validationError))
               /\ busy' = FALSE
               /\ UNCHANGED <<pc, hReq>>
          ELSE /\ log' = Append(started, L("Connecting to TronLink..."))
               /\ busy' = TRUE
               /\ pc' = "connect"
               /\ hReq' = data
    /\ UNCHANGED <<screen, network, wallet, data, loadingOrder>>
    /\ UNCHANGED <<hToken, hAddress, hHost, hDecimals, hAmountRaw, hAllowance, hTxid>>
    /\ UNCHANGED <<codecVars, waitVars, chainVars>>

\* onClick of the "Pay with Crypto" button, which is disabled under PayDisabled
ClickPay == ~PayDisabled /\ handlePayWithCrypto

\* connectTronLink resolves; setWallet(address); assertNetwork is entered
\* with the NETWORK the build is configured with and reads the host of the
\* wallet's node
ConnectResolves ==
    /\ pc = "connect"
    /\ wallet' = WalletAddress
    /\ hAddress' = WalletAddress
    /\ \E host \in Hosts : hHost' = host
    /\ \E expectedNetwork \in NetworkConfigs : network' = expectedNetwork
    /\ pc' = "network"
    /\ UNCHANGED <<screen, busy, log, paymentStatus, data, loadingOrder>>
    /\ UNCHANGED <<hReq, hToken, hDecimals, hAmountRaw, hAllowance, hTxid, attempts>>
    /\ UNCHANGED <<codecVars, waitVars, chainVars>>

\* assertNetwork returns or throws; when it returns, the token contract is
\* built and decimals() is called
NetworkAsserted ==
    /\ pc = "network"
    /\ IF assertNetwork(hHost, network) # ""
       THEN Catch(assertNetwork(hHost, network))
       ELSE /\ log' = Append(log, L("Wallet connected"))
            /\ hHost' = <<>>
            /\ hToken' = ContractTokenOf(hReq)
            /\ chainCalls' = Append(chainCalls,
                                    Call("decimals", ContractTokenOf(hReq), <<>>))
            /\ pc' = "decimals"
            /\ UNCHANGED <<paymentStatus, busy>>
            /\ UNCHANGED <<hReq, hAddress, hDecimals, hAmountRaw, hAllowance, hTxid>>
            /\ UNCHANGED <<inFlight, approveMined>>
    /\ network' = ""
    /\ UNCHANGED <<screen, wallet, data, loadingOrder, attempts, stored>>
    /\ UNCHANGED <<codecVars, waitVars>>

\* connectTronLink throws
ConnectThrows ==
    /\ pc = "connect"
    /\ \E message \in ConnectErrors : Catch(message)
    /\ UNCHANGED <<screen, network, wallet, data, loadingOrder, attempts, stored>>
    /\ UNCHANGED <<codecVars, waitVars>>

\* decimals() returns; toTokenUnits; allowance(address, PAYMENT.address) is
\* called
DecimalsReturns ==
    /\ pc = "decimals"
    /\ \E decimals \in TokenDecimals :
        LET converted == toTokenUnits(Str(hReq.amount), decimals) IN
        IF converted.threw
        THEN Catch(converted.message)
        ELSE /\ hDecimals' = decimals
             /\ hAmountRaw' = converted.value
             /\ log' = log \o <<L("Token"), L("Amount"), L("Amount (raw)")>>
             /\ chainCalls' = Append(chainCalls,
                                     Call("allowance", hToken,
                                          <<hAddress, PAYMENT_ADDRESS>>))
             /\ pc' = "allowance"
             /\ UNCHANGED <<paymentStatus, busy>>
             /\ UNCHANGED <<hReq, hToken, hAddress, hHost, hAllowance, hTxid>>
             /\ UNCHANGED <<inFlight, approveMined>>
    /\ UNCHANGED <<screen, network, wallet, data, loadingOrder, attempts, stored>>
    /\ UNCHANGED <<codecVars, waitVars>>

\* allowance() returns; approve is sent without being awaited, and payTx is
\* sent with it
AllowanceReturnsApproveNotAwaited ==
    /\ pc = "allowance"
    /\ \E allowance \in AllowanceChoices(hAmountRaw) :
        /\ hAllowance' = allowance
        /\ IF BigIntLess(allowance, hAmountRaw)
           THEN /\ log' = log \o <<L("Current allowance"), L("Approval required"),
                                   L("Calling payTx()...")>>
                /\ chainCalls' = chainCalls
                                    \o <<Call("approve", hToken, ApproveArgs(hAmountRaw)),
                                         Call("payTx", PAYMENT_ADDRESS,
                                              PayTxArgs(hReq, hAmountRaw))>>
                /\ inFlight' = inFlight \cup {"approve", "payTx"}
           ELSE /\ log' = log \o <<L("Current allowance"),
                                   L("Sufficient allowance. Skipping approve."),
                                   L("Calling payTx()...")>>
                /\ chainCalls' = Append(chainCalls,
                                        Call("payTx", PAYMENT_ADDRESS,
                                             PayTxArgs(hReq, hAmountRaw)))
                /\ inFlight' = inFlight \cup {"payTx"}
    /\ pc' = "pay"
    /\ UNCHANGED <<screen, network, busy, wallet, paymentStatus, data, loadingOrder>>
    /\ UNCHANGED <<hReq, hToken, hAddress, hHost, hDecimals, hAmountRaw, hTxid, attempts>>
    /\ UNCHANGED <<approveMined, stored>>
    /\ UNCHANGED <<codecVars, waitVars>>

\* allowance() returns; approve is sent when the allowance is short,
\* otherwise payTx is sent at once
AllowanceReturns ==
    /\ pc = "allowance"
    /\ \E allowance \in AllowanceChoices(hAmountRaw) :
        /\ hAllowance' = allowance
        /\ IF BigIntLess(allowance, hAmountRaw)
           THEN /\ log' = log \o <<L("Current allowance"), L("Approval required")>>
                /\ chainCalls' = Append(chainCalls,
                                        Call("approve", hToken, ApproveArgs(hAmountRaw)))
                /\ inFlight' = inFlight \cup {"approve"}
                /\ pc' = "approve"
           ELSE /\ log' = log \o <<L("Current allowance"),
                                   L("Sufficient allowance. Skipping approve."),
                                   L("Calling payTx()...")>>
                /\ chainCalls' = Append(chainCalls,
                                        Call("payTx", PAYMENT_ADDRESS,
                                             PayTxArgs(hReq, hAmountRaw)))
                /\ inFlight' = inFlight \cup {"payTx"}
                /\ pc' = "pay"
    /\ UNCHANGED <<screen, network, busy, wallet, paymentStatus, data, loadingOrder>>
    /\ UNCHANGED <<hReq, hToken, hAddress, hHost, hDecimals, hAmountRaw, hTxid, attempts>>
    /\ UNCHANGED <<approveMined, stored>>
    /\ UNCHANGED <<codecVars, waitVars>>

\* approve(...).send() returns its txid; payTx is sent
ApproveReturns ==
    /\ pc = "approve"
    /\ log' = log \o <<L("Approve tx"), L("Calling payTx()...")>>
    /\ chainCalls' = Append(chainCalls,
                            Call("payTx", PAYMENT_ADDRESS, PayTxArgs(hReq, hAmountRaw)))
    /\ inFlight' = (inFlight \ {"approve"}) \cup {"payTx"}
    /\ pc' = "pay"
    /\ UNCHANGED <<screen, network, busy, wallet, paymentStatus, data, loadingOrder>>
    /\ UNCHANGED <<hReq, hToken, hAddress, hHost, hDecimals, hAmountRaw, hAllowance, hTxid,
                   attempts>>
    /\ UNCHANGED <<approveMined, stored>>
    /\ UNCHANGED <<codecVars, waitVars>>

\* payTx(...).send() returns its txid; waitForTxResult is called
PayTxReturns ==
    /\ pc = "pay"
    /\ hTxid' = PayTxid
    /\ inFlight' = inFlight \ {"payTx"}
    /\ log' = log \o <<L("Payment txid"), L("Waiting for chain confirmation...")>>
    /\ waitForTxResult(PayTxid, ScreenOptions)
    /\ pc' = "confirm"
    /\ UNCHANGED <<screen, network, busy, wallet, paymentStatus, data, loadingOrder>>
    /\ UNCHANGED <<hReq, hToken, hAddress, hHost, hDecimals, hAmountRaw, hAllowance, attempts>>
    /\ UNCHANGED <<chainCalls, approveMined, stored>>
    /\ UNCHANGED codecVars

\* the awaited contract call (decimals, allowance, approve, payTx) rejects
ChainCallThrows ==
    /\ pc \in {"decimals", "allowance", "approve", "pay"}
    /\ Catch("contract call rejected")
    /\ UNCHANGED <<screen, network, wallet, data, loadingOrder, attempts, stored>>
    /\ UNCHANGED <<codecVars, waitVars>>

\* the chain confirms the approve transaction, at any time after it was sent
ApproveConfirmedOnChain ==
    /\ \E i \in 1..Len(chainCalls) : chainCalls[i].op = "approve"
    /\ ~approveMined
    /\ approveMined' = TRUE
    /\ UNCHANGED <<chainCalls, inFlight, stored>>
    /\ UNCHANGED <<codecVars, waitVars, uiVars, handlerVars>>

\* waitForTxResult while the handler awaits it: a query answers after half
\* the timeout, so that the loop ends within two queries
ConfirmGetTxInfoAnswers == pc = "confirm" /\ GetTxInfoAnswersIn({wTimeoutMs \div 2})

ConfirmGetTxInfoThrows == pc = "confirm" /\ GetTxInfoThrowsIn({wTimeoutMs \div 2})

ConfirmSleepEnds == pc = "confirm" /\ WaitSleepEndsIn({0})

\* the status set when FAILED falls through to the last branch
StatusForFailedFallsThrough(finalStatus) ==
    CASE finalStatus = "SUCCESS" -> "SUCCESS"
      [] OTHER -> IF screen = "route" THEN paymentStatus ELSE "PENDING"

\* the status set for a final status: the route screen returns on PENDING
\* before it sets one
StatusFor(finalStatus) ==
    CASE finalStatus = "SUCCESS" -> "SUCCESS"
      [] finalStatus = "FAILED"  -> "FAILED"
      [] OTHER -> IF screen = "route" THEN paymentStatus ELSE "PENDING"

\* the lines logged for a final status
StatusLog(finalStatus) ==
    CASE finalStatus = "SUCCESS" ->
            IF screen = "route"
            THEN <<L("Updating backend DB..."), L("Payment successful!")>>
            ELSE <<L("Payment successful on-chain!")>>
      [] finalStatus = "FAILED" ->
            IF screen = "route"
            THEN <<L("Updating backend DB...")>>
            ELSE <<L("Payment failed on-chain.")>>
      [] OTHER -> <<L("Still pending. Please refresh later to confirm.")>>

\* waitForTxResult returns finalStatus; the status is set; the QR and form
\* screens write the payment to localStorage under the key of its txid
ConfirmReturns ==
    /\ pc = "confirm"
    /\ wPc = "returned"
    /\ paymentStatus' = StatusFor(wRet)
    /\ log' = log \o <<LA("Chain status", wRet)>> \o StatusLog(wRet)
    /\ stored' = IF screen = "route"
                 THEN stored
                 ELSE {e \in stored : e.txid # hTxid}
                        \cup {[txid       |-> hTxid,
                               status     |-> wRet,
                               merchantId |-> hReq.merchantId,
                               orderId    |-> hReq.orderId,
                               invoiceId  |-> hReq.invoiceId]}
    /\ busy' = FALSE
    /\ HandlerFrameGone
    /\ WaitFrameGone
    /\ UNCHANGED <<screen, network, wallet, data, loadingOrder, attempts>>
    /\ UNCHANGED codecVars

\* waitForTxResult rejects (getTxInfo threw)
ConfirmThrows ==
    /\ pc = "confirm"
    /\ wPc = "threw"
    /\ Catch(wRet)
    /\ WaitFrameGone
    /\ UNCHANGED <<screen, network, wallet, data, loadingOrder, attempts, stored>>
    /\ UNCHANGED codecVars

ScreenNext ==
    \/ LoadOrderSettles
    \/ RouteChanges
    \/ onPickQRFile
    \/ EditForm
    \/ ClickPay
    \/ ConnectResolves
    \/ NetworkAsserted
    \/ ConnectThrows
    \/ DecimalsReturns
    \/ AllowanceReturns
    \/ ApproveReturns
    \/ PayTxReturns
    \/ ChainCallThrows
    \/ ApproveConfirmedOnChain
    \/ WaitLoopEnter
    \/ WaitLoopExit
    \/ ConfirmGetTxInfoAnswers
    \/ ConfirmGetTxInfoThrows
    \/ ConfirmSleepEnds
    \/ ConfirmReturns
    \/ ConfirmThrows

\* the same with the handler called whatever the button's state
HandlerNext ==
    \/ LoadOrderSettles
    \/ RouteChanges
    \/ onPickQRFile
    \/ EditForm
    \/ handlePayWithCrypto
    \/ ConnectResolves
    \/ NetworkAsserted
    \/ ConnectThrows
    \/ DecimalsReturns
    \/ AllowanceReturns
    \/ ApproveReturns
    \/ PayTxReturns
    \/ ChainCallThrows
    \/ ApproveConfirmedOnChain
    \/ WaitLoopEnter
    \/ WaitLoopExit
    \/ ConfirmGetTxInfoAnswers
    \/ ConfirmGetTxInfoThrows
    \/ ConfirmSleepEnds
    \/ ConfirmReturns
    \/ ConfirmThrows

\* the screens given any request, to see what validationError makes of it
LoadOrderSettlesAny ==
    LoadOrderSettlesFrom({mapApiOrderToUI(api) : api \in ValidatorInputs})

onPickQRFileAny == onPickQRFileFrom(ValidatorInputs)

EditFormAny == EditFormTo(ValidatorInputs)

ValidateNext ==
    \/ LoadOrderSettlesAny
    \/ RouteChanges
    \/ onPickQRFileAny
    \/ EditFormAny

-----------------------------------------------------------------------------
(* Specifications *)

\* the codec harness idle: no codec call is part of the behaviour
CodecIdle ==
    /\ cOp = "none"
    /\ cAmount = Nil
    /\ cRaw = <<>>
    /\ cDecimals = 0
    /\ cHuman = <<>>
    /\ cUnits = Pending

\* no screen mounted: the library functions are called on their own
NoScreen ==
    /\ screen = "none"
    /\ network = ""
    /\ busy = FALSE
    /\ log = <<>>
    /\ wallet = <<>>
    /\ paymentStatus = "IDLE"
    /\ data = NoData
    /\ loadingOrder = FALSE
    /\ pc = "idle"
    /\ hReq = NoData
    /\ hToken = <<>>
    /\ hAddress = <<>>
    /\ hHost = <<>>
    /\ hDecimals = -1
    /\ hAmountRaw = <<>>
    /\ hAllowance = <<>>
    /\ hTxid = ""
    /\ attempts = 0
    /\ chainCalls = <<>>
    /\ inFlight = {}
    /\ approveMined = FALSE
    /\ stored = {}

InitCodec == CodecInit /\ WaitInit /\ NoScreen

InitWait == CodecIdle /\ WaitInit /\ NoScreen

Init == CodecIdle /\ WaitInit /\ ScreenInit

SpecCodec == InitCodec /\ [][CodecNext]_vars

SpecWait == InitWait /\ [][WaitNext]_vars

Spec == Init /\ [][ScreenNext]_vars

SpecHandler == Init /\ [][HandlerNext]_vars

SpecValidate == Init /\ [][ValidateNext]_vars

\* the awaits of the handler: each is a call the handler has made and
\* waits for
AwaitSettles ==
    \/ ConnectResolves
    \/ ConnectThrows
    \/ NetworkAsserted
    \/ DecimalsReturns
    \/ AllowanceReturns
    \/ ApproveReturns
    \/ PayTxReturns
    \/ ChainCallThrows
    \/ WaitLoopEnter
    \/ WaitLoopExit
    \/ ConfirmGetTxInfoAnswers
    \/ ConfirmGetTxInfoThrows
    \/ ConfirmSleepEnds
    \/ ConfirmReturns
    \/ ConfirmThrows

\* the route changes, and the form is edited, between attempts
RouteChangesAtRest == ~busy /\ RouteChanges

EditFormAtRest == ~busy /\ EditForm

FairNext ==
    \/ LoadOrderSettles
    \/ RouteChangesAtRest
    \/ onPickQRFile
    \/ EditFormAtRest
    \/ handlePayWithCrypto
    \/ ConnectResolves
    \/ NetworkAsserted
    \/ ConnectThrows
    \/ DecimalsReturns
    \/ AllowanceReturns
    \/ ApproveReturns
    \/ PayTxReturns
    \/ ChainCallThrows
    \/ ApproveConfirmedOnChain
    \/ WaitLoopEnter
    \/ WaitLoopExit
    \/ ConfirmGetTxInfoAnswers
    \/ ConfirmGetTxInfoThrows
    \/ ConfirmSleepEnds
    \/ ConfirmReturns
    \/ ConfirmThrows

\* the screens when every awaited wallet, chain and indexer call eventually
\* returns or throws and every timer fires; the handler is called whatever
\* the button's state, so that an attempt may also end on a validation
\* error. The user leaves the route and the form alone while an attempt
\* runs: these events change no variable that a step of the handler waits
\* on (EnvironmentLeavesAttemptAlone, under Spec).
SpecFair == Init /\ [][FairNext]_vars /\ WF_vars(AwaitSettles)

\* the poller when the loop test is evaluated once it is reached, every
\* request to the indexing service is answered or fails, and every timer
\* fires
SpecWaitFair ==
    /\ SpecWait
    /\ WF_vars(WaitLoopEnter \/ WaitLoopExit)
    /\ WF_vars(GetTxInfoAnswers \/ GetTxInfoThrows)
    /\ WF_vars(WaitSleepEnds)


-----------------------------------------------------------------------------
(* The grammar and the canonical forms the codec's properties are stated in *)

IsDigitString(s) == \A i \in 1..Len(s) : s[i] \in Digits

\* a base-unit string: digits, at least one, no leading zero except "0" itself
IsCanonicalUnits(u) ==
    /\ Len(u) >= 1
    /\ IsDigitString(u)
    /\ (Len(u) > 1 => u[1] # "0")

Zeros(k) == [i \in 1..k |-> "0"]

\* the ways to read s as <whole> or <whole>.<fraction>, both non-empty digit
\* strings: non-empty exactly when s is in the grammar ^\d+(\.\d+)?$
GrammarSplit(s) ==
    { wf \in (({SubSeq(s, 1, k) : k \in 1..Len(s)})
              \X ({<<>>} \cup {SubSeq(s, k, Len(s)) : k \in 1..Len(s)})) :
        /\ IsDigitString(wf[1])
        /\ IsDigitString(wf[2])
        /\ s = IF wf[2] = <<>> THEN wf[1] ELSE wf[1] \o <<".">> \o wf[2] }

\* f right-padded with zeros or cut, to exactly d digits
FractionTo(f, d) == [i \in 1..d |-> IF i <= Len(f) THEN f[i] ELSE "0"]

\* u is s without its leading zeros, one digit kept
IsLeadingZeroStripped(s, u) ==
    /\ IsCanonicalUnits(u)
    /\ \E k \in 0..Len(s) : s = Zeros(k) \o u

\* n is s without its leading zeros, and "0" when nothing is left
IsZeroStrippedOrZero(s, n) ==
    \E k \in 0..Len(s) :
        LET z == SubSeq(s, k + 1, Len(s)) IN
        /\ s = Zeros(k) \o z
        /\ (z # <<>> => z[1] # "0")
        /\ n = IF z = <<>> THEN <<"0">> ELSE z

\* f is s without its trailing zeros
IsTrailingZeroStripped(s, f) ==
    /\ (f # <<>> => f[Len(f)] # "0")
    /\ \E k \in 0..Len(s) : s = f \o Zeros(k)

CodecDone == cUnits # Pending

-----------------------------------------------------------------------------
(* Claims about the amount codec, under SpecCodec *)

\* C1: for every base-unit string u of digits without leading zeros ("0"
\* included) and every precision d, toTokenUnits(fromTokenUnits(u, d), d)
\* returns u.
C1_RoundTrip ==
    (cOp = "roundTrip" /\ CodecDone /\ IsCanonicalUnits(cRaw))
        => cUnits = Returned(cRaw)

\* a round trip through a value with a fraction and a padded whole part
C1_Witness ==
    /\ cOp = "roundTrip" /\ CodecDone
    /\ cRaw = <<"1", "5">> /\ cDecimals = 3
    /\ cHuman = <<"0", ".", "0", "1", "5">>
    /\ cUnits = Returned(<<"1", "5">>)

\* C2: for every amount in the grammar and every precision d, toTokenUnits
\* returns whole ++ fraction, the fraction right-padded with zeros or cut
\* (never rounded) to exactly d digits, leading zeros stripped and one digit
\* kept; ("10.25", 6) gives "10250000", ("0.000001", 6) gives "1",
\* ("5", 0) gives "5".
C2_ToTokenUnitsScales ==
    (cOp = "toTokenUnits" /\ CodecDone /\ ~cAmount.isNil)
        => /\ \A wf \in GrammarSplit(cAmount.str) :
                /\ ~cUnits.threw
                /\ IsLeadingZeroStripped(wf[1] \o FractionTo(wf[2], cDecimals),
                                         cUnits.value)
           /\ (cAmount.str = <<"1", "0", ".", "2", "5">> /\ cDecimals = 6)
                => cUnits = Returned(<<"1", "0", "2", "5", "0", "0", "0", "0">>)
           /\ (cAmount.str = <<"0", ".", "0", "0", "0", "0", "0", "1">> /\ cDecimals = 6)
                => cUnits = Returned(<<"1">>)
           /\ (cAmount.str = <<"5">> /\ cDecimals = 0)
                => cUnits = Returned(<<"5">>)
           /\ (cAmount.str = <<"1", ".", "5", "5">> /\ cDecimals = 1)
                => cUnits = Returned(<<"1", "5">>)

\* a fraction longer than the precision is cut, not rounded up
C2_Witness ==
    /\ cOp = "toTokenUnits" /\ CodecDone
    /\ cAmount = Str(<<"0", ".", "1", "5">>) /\ cDecimals = 1
    /\ cUnits = Returned(<<"1">>)

\* C3: toTokenUnits throws its invalid-amount error, returning no value,
\* whenever amount is null/undefined, empty or outside the grammar, for every
\* precision; in particular for "", "abc", "-1", "1.2.3" and null.
C3_ToTokenUnitsRejects ==
    (cOp = "toTokenUnits" /\ CodecDone)
        => /\ (cAmount.isNil \/ GrammarSplit(cAmount.str) = {})
                => /\ cUnits.threw
                   /\ cUnits.value = <<>>
                   /\ cUnits.message \in {"Invalid amount", "Invalid numeric amount"}
           /\ cAmount \in { Nil, Str(<<>>), Str(<<"a", "b", "c">>), Str(<<"-", "1">>),
                            Str(<<"1", ".", "2", ".", "3">>) }
                => cUnits.threw

\* "1.2.3" was handed in and refused
C3_Witness ==
    /\ cOp = "toTokenUnits" /\ CodecDone
    /\ cAmount = Str(<<"1", ".", "2", ".", "3">>)
    /\ cUnits = Threw("Invalid numeric amount")

\* C4: for every digit string raw and precision d, fromTokenUnits strips the
\* leading zeros (empty becomes "0"), returns that unchanged when d = 0, and
\* otherwise left-pads to at least d+1 digits, splits off the last d digits as
\* the fraction, strips the fraction's trailing zeros and returns
\* "whole.fraction" when a fraction remains, else "whole".
C4_FromTokenUnitsFormats ==
    (cOp = "fromTokenUnits" /\ CodecDone /\ IsDigitString(cRaw))
        => /\ \E n \in {SubSeq(cRaw, k, Len(cRaw)) : k \in 1..Len(cRaw)} \cup {<<"0">>} :
                /\ IsZeroStrippedOrZero(cRaw, n)
                /\ IF cDecimals = 0
                   THEN cHuman = n
                   ELSE LET padded == IF Len(n) >= cDecimals + 1
                                      THEN n
                                      ELSE Zeros(cDecimals + 1 - Len(n)) \o n
                            cut    == Len(padded) - cDecimals
                            whole  == [i \in 1..cut |-> padded[i]]
                            frac   == [i \in 1..cDecimals |-> padded[cut + i]]
                        IN \E f \in {SubSeq(frac, 1, k) : k \in 0..cDecimals} :
                              /\ IsTrailingZeroStripped(frac, f)
                              /\ cHuman = IF f # <<>> THEN whole \o <<".">> \o f
                                                      ELSE whole
           /\ (cRaw = <<"1", "0", "2", "5", "0", "0", "0", "0">> /\ cDecimals = 6)
                => cHuman = <<"1", "0", ".", "2", "5">>
           /\ (cRaw = <<"1">> /\ cDecimals = 6)
                => cHuman = <<"0", ".", "0", "0", "0", "0", "0", "1">>
           /\ (cRaw = <<"5">> /\ cDecimals = 0) => cHuman = <<"5">>

\* leading zeros, padding and a trailing zero of the fraction all occur
C4_Witness ==
    /\ cOp = "fromTokenUnits" /\ CodecDone
    /\ cRaw = <<"0", "5", "0">> /\ cDecimals = 3
    /\ cHuman = <<"0", ".", "0", "5">>

-----------------------------------------------------------------------------
(* Claims about the confirmation poller, under SpecWait *)

\* a receipt result that settles the transaction: a non-empty string
IsDefinite(result) == result \in ReceiptResults \ {Absent, ""}

\* C9: waitForTxResult returns SUCCESS at the first poll whose receipt.result
\* is "SUCCESS", FAILED at the first poll whose receipt.result is another
\* non-empty string, polls no more after either, and returns PENDING only if
\* every poll made before the timeout saw an absent or empty result.
C9_PollResult ==
    /\ (IsDefinite(wLast) /\ wQueries > 0)
          => /\ wPc = "returned"
             /\ wRet = IF wLast = "SUCCESS" THEN "SUCCESS" ELSE "FAILED"
             /\ wEmpty = wQueries - 1
    /\ (wPc = "returned" /\ wRet \in {"SUCCESS", "FAILED"})
          => /\ IsDefinite(wLast)
             /\ (wRet = "SUCCESS") = (wLast = "SUCCESS")
    /\ (wPc = "returned" /\ wRet = "PENDING")
          => /\ wEmpty = wQueries
             /\ ~IsDefinite(wLast)
             /\ wElapsed >= wTimeoutMs
    /\ wPc = "returned" => wRet \in {"SUCCESS", "FAILED", "PENDING"}

\* FAILED returned at the third poll, after an absent and an empty result
C9_Witness ==
    /\ wPc = "returned" /\ wRet = "FAILED"
    /\ wLast = "REVERT" /\ wQueries = 3 /\ wEmpty = 2

\* C10: with timeoutMs = 90000 and intervalMs = 3000, waitForTxResult makes
\* at most 30 requests to the indexing service, every sleep lasting at least
\* intervalMs.
C10_AtMostThirtyQueries ==
    (wPc # "idle" /\ wTimeoutMs = 90000 /\ wIntervalMs = 3000)
        => /\ wQueries <= 30
           /\ (wPc \in {"query", "sleep"} => wElapsed >= (wQueries - 1) * wIntervalMs)

\* the thirtieth request was made and the call ended PENDING
C10_Witness ==
    /\ wTimeoutMs = 90000 /\ wIntervalMs = 3000
    /\ wPc = "returned" /\ wRet = "PENDING"
    /\ wQueries = 30

-----------------------------------------------------------------------------
(* Claims about a payment attempt, under Spec *)

DigitValue(c) == CHOOSE k \in 0..9 : <<"0", "1", "2", "3", "4", "5", "6", "7", "8", "9">>[k + 1] = c

\* s with zeros in front, n digits long
ZeroPadded(s, n) == [i \in 1..n |-> IF i <= n - Len(s) THEN "0" ELSE s[i - (n - Len(s))]]

\* a < b as integers, for digit strings: at the first place where they
\* differ once aligned, a has the smaller digit
NumLess(a, b) ==
    LET n  == Max(Len(a), Len(b))
        pa == ZeroPadded(a, n)
        pb == ZeroPadded(b, n)
    IN \E i \in 1..n :
          /\ DigitValue(pa[i]) < DigitValue(pb[i])
          /\ \A j \in 1..(i - 1) : pa[j] = pb[j]

CallsOf(op) == {i \in 1..Len(chainCalls) : chainCalls[i].op = op}

\* the attempt has read the allowance
AllowanceRead == pc \in {"approve", "pay", "confirm"}

\* the amount the attempt has to pay, in base units
Required == toTokenUnits(Str(hReq.amount), hDecimals).value

\* C5: once the attempt has read an allowance that is not below the required
\* base-unit amount (equal included), compared as integers of any size, it
\* has submitted no approve.
C5_NoApproveWhenSufficient ==
    (AllowanceRead /\ ~NumLess(hAllowance, Required)) => CallsOf("approve") = {}

\* the allowance equals an amount of twenty digits, and payTx was sent
\* with no approve before it
C5_Witness ==
    /\ pc = "pay"
    /\ hAllowance = Required
    /\ Len(Required) = 20
    /\ CallsOf("approve") = {}
    /\ CallsOf("payTx") # {}

\* C6: once the attempt has read an allowance below the required base-unit
\* amount it has submitted exactly one approve, on spender PAYMENT.address
\* and for exactly the required amount; before the allowance is read it has
\* submitted none.
C6_OneExactApproveWhenShort ==
    /\ (AllowanceRead /\ NumLess(hAllowance, Required))
          => /\ Cardinality(CallsOf("approve")) = 1
             /\ \A i \in CallsOf("approve") :
                   chainCalls[i].args = <<PAYMENT_ADDRESS, Required>>
    /\ ~AllowanceRead => CallsOf("approve") = {}

\* the allowance is one unit short of the amount, and the approve is out
C6_Witness ==
    /\ pc = "approve"
    /\ NumLess(hAllowance, Required)
    /\ hAllowance # <<"0">>
    /\ Cardinality(CallsOf("approve")) = 1

\* C7: at most one submission of the attempt is in flight; an approve that
\* was submitted is still being awaited for as long as payTx is not
\* submitted, and has returned once it is; payTx is the call right after it,
\* no confirmation poll having been made; with amount "15.00", decimals 6
\* and allowance 0 both carry "15000000".
C7_SequentialSubmissions ==
    /\ Cardinality(inFlight) <= 1
    /\ (CallsOf("approve") # {} /\ CallsOf("payTx") = {}) => inFlight = {"approve"}
    /\ CallsOf("payTx") # {} => "approve" \notin inFlight
    /\ \A i \in CallsOf("payTx") : \A j \in CallsOf("approve") : i = j + 1
    /\ Cardinality(CallsOf("payTx")) <= 1
    /\ pc = "pay" => (inFlight = {"payTx"} /\ wPc = "idle" /\ wQueries = 0)
    /\ pc = "approve" => (wPc = "idle" /\ wQueries = 0)
    /\ (/\ pc \in {"pay", "confirm"}
        /\ hReq.amount = <<"1", "5", ".", "0", "0">>
        /\ hDecimals = 6
        /\ hAllowance = <<"0">>)
          => /\ Len(chainCalls) = 4
             /\ chainCalls[3].op = "approve"
             /\ chainCalls[3].args[2] = <<"1", "5", "0", "0", "0", "0", "0", "0">>
             /\ chainCalls[4].op = "payTx"
             /\ chainCalls[4].args[5] = <<"1", "5", "0", "0", "0", "0", "0", "0">>

\* "15.00" at 6 decimals with allowance 0: approve has returned, payTx is in
\* flight, and the chain has not confirmed the approve
C7_Witness ==
    /\ pc = "pay"
    /\ hReq.amount = <<"1", "5", ".", "0", "0">>
    /\ hDecimals = 6
    /\ hAllowance = <<"0">>
    /\ inFlight = {"payTx"}
    /\ ~approveMined

\* the screen's validation of a request
ValidationOf(req) ==
    CASE screen = "route" -> validationErrorRoute(FALSE, req)
      [] screen = "qr"    -> validationErrorQR(req)
      [] OTHER            -> validationErrorForm(req)

-----------------------------------------------------------------------------
(* Claims about the status of the session, under Spec and SpecHandler *)

\* the handler returns in this step, waitForTxResult having returned PENDING
EndsOnTimeout ==
    /\ pc = "confirm"
    /\ wPc = "returned"
    /\ wRet = "PENDING"
    /\ pc' = "idle"

\* C11: an attempt whose payTx was submitted and whose confirmation poll
\* timed out without a definite receipt ends with status PENDING, and never
\* with FAILED.
C11_TimeoutEndsPending ==
    [][EndsOnTimeout => (paymentStatus' = "PENDING" /\ paymentStatus' # "FAILED")]_vars

\* C12: the status becomes PENDING only in the step that ends the
\* confirmation wait, waitForTxResult having returned PENDING after the
\* timeout with no definite receipt seen; no other step sets it.
C12_PendingOnlyOnTimeout ==
    [][(paymentStatus' = "PENDING" /\ paymentStatus # "PENDING")
          => /\ pc = "confirm"
             /\ wPc = "returned"
             /\ wRet = "PENDING"
             /\ wEmpty = wQueries
             /\ wElapsed >= wTimeoutMs
             /\ pc' = "idle"]_vars

\* the manual form shows PENDING after an attempt
C12_Witness ==
    /\ screen = "form"
    /\ paymentStatus = "PENDING"
    /\ pc = "idle"
    /\ ~busy

\* the handler is called in this step and validationError holds a reason
ValidationFails == attempts' # attempts /\ validationError # ""

\* a step of the running handler fails in this step: the handler returns
\* from an await other than a returned waitForTxResult
AwaitFails ==
    /\ pc # "idle"
    /\ pc' = "idle"
    /\ ~(pc = "confirm" /\ wPc = "returned")

TerminalStatuses == {"SUCCESS", "FAILED", "PENDING"}

\* C14: when a started attempt finishes (busy returns to false) the status
\* is SUCCESS, FAILED or PENDING, not IDLE and not PROCESSING.
C14_FinishedIsTerminal ==
    [][(busy /\ ~busy') => paymentStatus' \in TerminalStatuses]_vars

\* how far a status is along IDLE, PROCESSING, {SUCCESS, FAILED, PENDING}
StatusRank(status) ==
    CASE status = "IDLE"       -> 0
      [] status = "PROCESSING" -> 1
      [] OTHER                 -> 2

\* C15: while an attempt runs the status only advances: it does not go back
\* to IDLE or to an earlier state, and once SUCCESS, FAILED or PENDING it
\* does not change again within the attempt.
C15_StatusOnlyAdvances ==
    [][pc # "idle"
          => /\ StatusRank(paymentStatus') >= StatusRank(paymentStatus)
             /\ (paymentStatus \in TerminalStatuses => paymentStatus' = paymentStatus)]_vars

\* C16: when the handler is called while validationError holds a reason, it
\* returns without connecting the wallet, without a contract read and without
\* a transaction, and the last line it logged carries that reason as it is.
C16_ValidationShortCircuits ==
    [][ValidationFails
          => /\ pc' = "idle"
             /\ ~busy'
             /\ wallet' = wallet
             /\ chainCalls' = <<>>
             /\ inFlight' = {}
             /\ wPc' = "idle"
             /\ log' # <<>>
             /\ log'[Len(log')].arg = validationError]_vars

\* the manual form, called with its inputs empty, has logged "Invalid amount"
\* and holds no wallet
C16_Witness ==
    /\ screen = "form"
    /\ pc = "idle"
    /\ attempts = 1
    /\ wallet = <<>>
    /\ log = <<LA("Invalid", "Invalid amount")>>

\* the messages of the errors of connectTronLink and assertNetwork
WalletErrorMessages ==
    { "TronLink not detected. Install TronLink extension / app.",
      "Confirmation declined by user",
      "Wallet not connected/unlocked.",
      "Wrong network. Please switch to Nile Testnet in TronLink.",
      "Wrong network. Please switch to Tron Mainnet in TronLink." }

\* the handler returns in this step with status FAILED and one more log
\* line, which carries the message of a wallet error
EndsFailedOnWalletError ==
    /\ paymentStatus' = "FAILED"
    /\ ~busy'
    /\ chainCalls' = <<>>
    /\ \E message \in WalletErrorMessages : log' = Append(log, LA("Error", message))

\* C17: while the attempt connects the wallet or checks the network it has
\* issued no contract read and no transaction, and when connectTronLink or
\* assertNetwork throws, the attempt ends there with status FAILED and a log
\* line carrying the error's message.
C17_WalletFailureEndsFailed ==
    [][(pc = "connect" \/ pc = "network")
          => /\ chainCalls = <<>>
             /\ inFlight = {}
             /\ pc' \in {"connect", "network", "decimals", "idle"}
             /\ (pc' = "idle" => EndsFailedOnWalletError)]_vars

\* no extension: the attempt failed with the wallet still unset
C17_Witness ==
    /\ pc = "idle"
    /\ paymentStatus = "FAILED"
    /\ wallet = <<>>
    /\ log # <<>>
    /\ log[Len(log)]
          = LA("Error", "TronLink not detected. Install TronLink extension / app.")

\* the endpoints that belong to a network
EndpointsOf(expectedNetwork) ==
    CASE expectedNetwork = "nile"    -> {HostNile}
      [] expectedNetwork = "mainnet" -> {HostMainnet}
      [] expectedNetwork = "shasta"  -> {HostShasta}
      [] OTHER                       -> {}

\* assertNetwork returns in this step / throws in this step
NetworkCheckPasses == pc = "network" /\ pc' = "decimals"

NetworkCheckThrows == pc = "network" /\ pc' = "idle"

\* C18 as claimed: assertNetwork throws whenever an expected network is set
\* and the connected endpoint is not one of that network, whatever the
\* network, and does nothing when none is set.
C18_ThrowsOnEveryMismatch ==
    [][/\ (NetworkCheckPasses /\ network # "") => hHost \in EndpointsOf(network)
       /\ NetworkCheckThrows => network # ""]_vars

\* the hosts whose name holds "nile", and those whose name holds "trongrid"
NileHosts == {HostNile}

TrongridHosts == {HostNile, HostMainnet, HostShasta}

\* C18 amended: assertNetwork throws exactly when the expected network is
\* "nile" and the host does not contain "nile", or is "mainnet" and the host
\* does not contain "trongrid", with the message of that network; it does
\* nothing when the expected network is unset or is any other identifier.
C18_ThrowsOnNileAndMainnetOnly ==
    [][/\ NetworkCheckPasses
            => /\ (network = "nile" => hHost \in NileHosts)
               /\ (network = "mainnet" => hHost \in TrongridHosts)
       /\ NetworkCheckThrows
            => /\ network \in {"nile", "mainnet"}
               /\ (network = "nile" => hHost \notin NileHosts)
               /\ (network = "mainnet" => hHost \notin TrongridHosts)
               /\ log'[Len(log')].arg
                    = (IF network = "nile"
                       THEN "Wrong network. Please switch to Nile Testnet in TronLink."
                       ELSE "Wrong network. Please switch to Tron Mainnet in TronLink.")
      ]_vars

\* the build expects mainnet and the wallet names no node: the attempt ended
\* on the mainnet message
C18_Witness ==
    /\ pc = "idle"
    /\ paymentStatus = "FAILED"
    /\ log # <<>>
    /\ log[Len(log)]
          = LA("Error", "Wrong network. Please switch to Tron Mainnet in TronLink.")

\* the positions of the handler: idle, or suspended at one of its awaits
HandlerPositions ==
    {"idle", "connect", "network", "decimals", "allowance", "approve", "pay", "confirm"}

\* C19: every error raised while the handler runs is caught in it: in the
\* step in which an await fails the handler returns, having appended one log
\* line that carries the error's message, and set busy to false; the handler
\* is never left in another way.
C19_ErrorsAreLogged ==
    [][/\ pc' \in HandlerPositions
       /\ AwaitFails
            => /\ Len(log') = Len(log) + 1
               /\ SubSeq(log', 1, Len(log)) = log
               /\ log'[Len(log')].msg = "Error"
               /\ log'[Len(log')].arg # ""
               /\ ~busy'
               /\ wPc' = "idle"]_vars

\* payTx was rejected by the wallet: the attempt ended with the message logged
C19_Witness ==
    /\ pc = "idle"
    /\ ~busy
    /\ paymentStatus = "FAILED"
    /\ log # <<>>
    /\ log[Len(log)] = LA("Error", "contract call rejected")
    /\ \E i \in 1..Len(log) : log[i] = L("Calling payTx()...")

HexDigits ==
    Digits \cup {"a", "b", "c", "d", "e", "f", "A", "B", "C", "D", "E", "F"}

\* "0x" followed by 64 hexadecimal digits
IsBytes32HexString(v) ==
    /\ Len(v) = 66
    /\ v[1] = "0"
    /\ v[2] = "x"
    /\ \A i \in 3..66 : v[i] \in HexDigits

\* C20: a request passes validation only with merchantId, orderId and
\* invoiceId each "0x" followed by 64 hexadecimal digits; an id of another
\* length, without the prefix or with a character that is not a hex digit
\* makes validation yield a reason.
C20_IdsAreHex ==
    (data.loaded /\ validationError = "")
        => /\ IsBytes32HexString(data.merchantId)
           /\ IsBytes32HexString(data.orderId)
           /\ IsBytes32HexString(data.invoiceId)


-----------------------------------------------------------------------------
(* Claims about validationError, under SpecValidate *)

\* the screen shows a request and validates it
RequestShown == data.loaded /\ ~(screen = "route" /\ loadingOrder)

\* the request shown passes every rule but, possibly, the one on `field`
OnlyRuleLeft(field, good) == ValidationOf([data EXCEPT ![field] = good]) = ""

\* C21: the deadline rule passes exactly when the deadline is present and a
\* non-negative integer: for a request whose other fields are well formed,
\* validation yields no reason if and only if the deadline is a digit
\* string, "0" included.
C21_DeadlineRule ==
    (RequestShown /\ OnlyRuleLeft("deadline", <<"9">>))
        => (validationError = ""
                <=> (data.deadline # <<>> /\ IsDigitString(data.deadline)))


\* "0x" followed by an even, non-zero number of hexadecimal digits
IsByteHexString(v) ==
    /\ Len(v) >= 4
    /\ Len(v) % 2 = 0
    /\ v[1] = "0"
    /\ v[2] = "x"
    /\ \A i \in 3..Len(v) : v[i] \in HexDigits

\* C22: the signature rule passes exactly when the signature is "0x" followed
\* by a non-zero even number of hexadecimal digits: for a request whose other
\* fields are well formed, validation yields no reason if and only if the
\* signature has that shape; a missing signature, "0x" alone, an odd number
\* of digits and a character that is no hex digit each yield a reason.
C22_SignatureRule ==
    (RequestShown /\ OnlyRuleLeft("signature", <<"0", "x", "a", "b">>))
        => (validationError = "" <=> IsByteHexString(data.signature))


\* a request every rule passes
WellFormedRequest == Request(Bytes32("a"), <<"1", "5", ".", "0", "0">>, <<"9">>)

\* the reason the screen gives for the request shown when only `field` is
\* looked at, every other field being well formed: "" when its rule passes
ReasonOfRule(field) == ValidationOf([WellFormedRequest EXCEPT ![field] = data[field]])

\* the reason of the first rule of `order` that the request shown violates
RECURSIVE FirstReason(_)
FirstReason(order) ==
    IF order = <<>> THEN ""
    ELSE IF ReasonOfRule(Head(order)) # "" THEN ReasonOfRule(Head(order))
    ELSE FirstReason(Tail(order))

ClaimedRuleOrder == <<"amount", "deadline", "signature", "merchantId", "token">>

\* C23 as stated: on every screen the reason reported is that of the
\* earliest violated rule in the order amount, deadline, signature, ids,
\* token address.
C23_EarliestRuleInOneOrder ==
    RequestShown => validationError = FirstReason(ClaimedRuleOrder)

\* the order in which each screen tests its rules
RuleOrder ==
    CASE screen = "route" -> <<"amount", "deadline", "signature", "merchantId", "token">>
      [] screen = "qr"    -> <<"amount", "merchantId", "token", "deadline", "signature">>
      [] OTHER            -> <<"amount", "merchantId", "deadline", "signature">>

\* C23: the reason reported is that of the earliest violated rule in the
\* fixed order of the screen: amount, deadline, signature, ids, token address
\* on the route screen; amount, ids, token address, deadline, signature on
\* the QR screen; amount, ids, deadline, signature on the manual form.
C23_EarliestRuleInScreensOrder ==
    RequestShown => validationError = FirstReason(RuleOrder)

\* the QR screen holds a request with a negative deadline and a merchantId
\* one digit short, and reports the merchantId
C23_Witness ==
    /\ screen = "qr"
    /\ data.loaded
    /\ data.amount = <<"1", "5", ".", "0", "0">>
    /\ data.deadline = <<"-", "1">>
    /\ Len(data.merchantId) = 65
    /\ validationError = "Invalid merchantId (bytes32)"


-----------------------------------------------------------------------------
(* Claims about attempts, under Spec *)

\* C24: at most one attempt is active at a time: from the moment a run of
\* handlePayWithCrypto has started until it ends, busy is true and the pay
\* button is disabled, so that no second run can be started.
C24_OneAttemptAtATime == pc # "idle" => (busy /\ PayDisabled)

\* an attempt awaits the confirmation of a valid request: the button is
\* disabled for no reason but busy
C24_Witness ==
    /\ pc = "confirm"
    /\ busy
    /\ validationError = ""
    /\ paymentStatus = "PROCESSING"
    /\ data.loaded


-----------------------------------------------------------------------------
(* Claims about waitForTxResult, under SpecWait *)

\* a step that calls waitForTxResult(txid) without options
WaitCalledWithoutOptions == wPc = "idle" /\ waitForTxResult("tx", DefaultOptions)

\* C25 as stated: called without options, waitForTxResult runs with
\* timeoutMs = 90000 and intervalMs = 3000.
C25_DefaultsAreNinetySeconds ==
    [][WaitCalledWithoutOptions => (wTimeoutMs' = 90000 /\ wIntervalMs' = 3000)]_vars

\* C25: called without options, waitForTxResult runs with timeoutMs = 60000
\* and intervalMs = 2500; 90000 and 3000 are the options the payment screens
\* pass.
C25_DefaultsAreSixtySeconds ==
    [][WaitCalledWithoutOptions => (wTimeoutMs' = 60000 /\ wIntervalMs' = 2500)]_vars

\* a call under the defaults made its 24th request and ended PENDING
C25_Witness ==
    /\ wTimeoutMs = DefaultOptions.timeoutMs /\ wIntervalMs = DefaultOptions.intervalMs
    /\ wPc = "returned" /\ wRet = "PENDING"
    /\ wQueries = 24


\* the statuses waitForTxResult is documented to return
PollStatuses == {"SUCCESS", "FAILED", "PENDING"}

\* C26: waitForTxResult always terminates with a status: when every request
\* to the indexing service is eventually answered, a call that has started
\* eventually returns SUCCESS, FAILED or PENDING, and never ends with an
\* error in place of a status.
C26_AlwaysReturnsAStatus ==
    (wPc = "test") ~> (wPc = "returned" /\ wRet \in PollStatuses)


\* C27: every attempt eventually ends with busy false, whatever its outcome,
\* when every awaited wallet, chain and indexer call eventually returns or
\* throws; and busy is true at every point between the start and the end of
\* the attempt.
C27_AttemptEndsNotBusy ==
    /\ [](pc # "idle" => busy)
    /\ busy ~> (~busy /\ pc = "idle")

\* a change of the route and an edit of the form leave busy, the handler's
\* position and locals, the poller and the calls made as they are: no such
\* event can hold an attempt up
EnvironmentLeavesAttemptAlone ==
    [][(RouteChanges \/ EditForm)
         => UNCHANGED <<busy, handlerVars, waitVars, chainVars>>]_vars

\* an attempt has ended on a timeout of the poll and busy is false again
C27_Witness ==
    /\ ~busy
    /\ pc = "idle"
    /\ attempts > 0
    /\ log # <<>>
    /\ log[Len(log)] = L("Still pending. Please refresh later to confirm.")


\* the messages of the errors toTokenUnits throws
AmountErrors == {"Invalid amount", "Invalid numeric amount"}

\* the step in which the handler ends on an error thrown by toTokenUnits:
\* the wallet is connected and decimals() has been read
EndsOnAmountError ==
    /\ pc = "decimals"
    /\ pc' = "idle"
    /\ log' # <<>>
    /\ log'[Len(log')].msg = "Error"
    /\ log'[Len(log')].arg \in AmountErrors

\* C28: every request that passes validation has an amount toTokenUnits
\* converts, so that no attempt ends on an amount error after the wallet was
\* connected and decimals() was read.
C28_ValidatedAmountsConvert == [][~EndsOnAmountError]_vars


\* the amounts handed to approve and to payTx in the calls of the attempt
AmountsSubmitted ==
    {chainCalls[i].args[2] : i \in CallsOf("approve")}
        \cup {chainCalls[i].args[5] : i \in CallsOf("payTx")}

\* C29: the base-unit amount passed to approve and to payTx for a validated
\* request is a strictly positive integer, whatever the precision of the
\* token: no payment is submitted with amount 0.
C29_SubmittedAmountIsPositive ==
    \A amount \in AmountsSubmitted :
        /\ amount # <<>>
        /\ IsDigitString(amount)
        /\ Canon(amount) # <<"0">>


\* the step in which payTx is handed to the wallet
PayTxSubmitted == CallsOf("payTx") = {} /\ pc # "pay" /\ pc' = "pay"

\* the payments of the session that ended SUCCESS or PENDING, as the QR
\* screen and the manual form have written them to localStorage
PaidOrPending == {e \in stored : e.status \in {"SUCCESS", "PENDING"}}

\* C30: within one session, once payTx was submitted for an order and the
\* attempt ended SUCCESS or PENDING, no further payTx is submitted for the
\* same merchantId, orderId and invoiceId.
C30_NoSecondPayTx ==
    [][PayTxSubmitted
         => \A e \in PaidOrPending :
               \/ e.merchantId # hReq.merchantId
               \/ e.orderId # hReq.orderId
               \/ e.invoiceId # hReq.invoiceId]_vars


\* the step in which the status of a submitted payment becomes FAILED
SubmittedBecomesFailed ==
    pc = "confirm" /\ paymentStatus # "FAILED" /\ paymentStatus' = "FAILED"

\* the poll returned FAILED on a receipt whose result is a non-empty string
\* other than SUCCESS
FailedReceiptReturned ==
    /\ wPc = "returned"
    /\ wRet = "FAILED"
    /\ Truthy(wLast)
    /\ wLast # "SUCCESS"

\* C31: after the payment transaction has been submitted, the status becomes
\* FAILED only if the indexing service returned a receipt whose result is a
\* non-empty string other than SUCCESS; an error response of the indexing
\* service or an unreachable indexer never makes a submitted payment FAILED.
C31_FailedOnlyOnFailedReceipt ==
    [][SubmittedBecomesFailed => FailedReceiptReturned]_vars

=============================================================================
